---- MODULE Spec2Model ----
(***************************************************************************)
(* Model of the authentication service: the relational store (users,       *)
(* api_keys, refresh_tokens), the token issuer, the principal resolver,    *)
(* the authorization gates and the HTTP handlers of app/routers.           *)
(*                                                                         *)
(* Time is counted in minutes.  Strings that the code inspects (bearer     *)
(* credentials, scope lists, passwords) are sequences of one-character or  *)
(* one-word strings, so that startswith / split / regex searches are       *)
(* computed rather than assumed.                                           *)
(***************************************************************************)
EXTENDS Integers, Sequences, FiniteSets, TLC

VARIABLES
    users,            \* committed rows of table users
    api_keys,         \* committed rows of table api_keys
    refresh_tokens,   \* committed rows of table refresh_tokens
    now,              \* datetime.utcnow(), in minutes
    ticks,            \* number of clock advances so far (bounded)
    sess,             \* per request task: position in its handler and its open transaction
    resp,             \* the last HTTP response sent (with the request it answers)
    issued,           \* history: access tokens returned by login / refresh
    rotated,          \* history: refresh tokens for which /auth/refresh has succeeded
    successors        \* history: <<old row id, new row id>> per committed rotation

vars == <<users, api_keys, refresh_tokens, now, ticks, sess, resp, issued, rotated, successors>>

store == <<users, api_keys, refresh_tokens>>

-----------------------------------------------------------------------------
(* Bounds of the model *)

MaxTicks == 1          \* clock advances explored
MaxRefreshRows == 3    \* rows of refresh_tokens explored
MaxLogins == 1         \* logins explored where the clients go on to use the access token
MaxCoreLen == 4        \* characters of a candidate password chosen freely
MaxDays == 92          \* largest expires_in_days (and its negative) of a key request

Procs == {"p1", "p2"}          \* concurrent request tasks

-----------------------------------------------------------------------------
(* Configuration and fixed values *)

None == "None"
TheOne(S) == CHOOSE x \in S : TRUE
NoTime == -1

ACCESS_TOKEN_EXPIRE_MINUTES == 30
SECRET_KEY == "SECRET_KEY"
RefreshTtl == 7 * 24 * 60           \* timedelta(days=7)
DayMinutes == 24 * 60

TickSteps == {1, RefreshTtl}

Emails == {"a@x.com", "admin@x.com"}

-----------------------------------------------------------------------------
(* Texts: bearer credentials and stored key values.  `head` is the leading *)
(* characters of the string, `body` the opaque remainder; a JWT carries    *)
(* its claims and the key that signed it.                                  *)

NoText == [head |-> <<>>, body |-> None, sub |-> None, exp |-> NoTime, sig |-> None]

SK_PREFIX == <<"s", "k", "_">>
JWT_HEAD == <<"e", "y", "J">>

startswith(text, prefix) ==
    /\ Len(text.head) >= Len(prefix)
    /\ SubSeq(text.head, 1, Len(prefix)) = prefix

generate_api_key(rand) == [NoText EXCEPT !.head = SK_PREFIX, !.body = rand]

hash_api_key(api_key) == [api_key EXCEPT !.head = <<"#">> \o api_key.head]

jwt_encode(sub, exp, key) ==
    [NoText EXCEPT !.head = JWT_HEAD, !.sub = sub, !.exp = exp, !.sig = key]

\* expires_delta is an Optional[timedelta]: {} for None, {d} for a delta of d minutes;
\* `if expires_delta:` is false for None and for a zero delta.
create_access_token(sub, expires_delta, t) ==
    LET expire == IF expires_delta # {} /\ expires_delta # {0}
                  THEN t + TheOne(expires_delta)
                  ELSE t + ACCESS_TOKEN_EXPIRE_MINUTES
    IN  jwt_encode(sub, expire, SECRET_KEY)

\* rt_<random>_<timestamp>
NoToken == <<>>
create_refresh_token(rand, t) == <<"rt_", rand, t>>

-----------------------------------------------------------------------------
(* Passwords *)

get_password_hash(password) == [salt |-> "salt", of |-> password]
verify_password(plain, hashed) == get_password_hash(plain) = hashed

Passwords == {<<"S", "e", "c", "u", "r", "e", "1", "2", "3", "!">>, <<"p", "w", "m">>}

-----------------------------------------------------------------------------
(* Password policy: app/utils.py.  A password is a sequence of characters. *)

UPPER ==
    {"A", "B", "C", "D", "E", "F", "G", "H", "I", "J", "K", "L", "M", "N", "O", "P", "Q", "R",
     "S", "T", "U", "V", "W", "X", "Y", "Z"}
LOWER ==
    {"a", "b", "c", "d", "e", "f", "g", "h", "i", "j", "k", "l", "m", "n", "o", "p", "q", "r",
     "s", "t", "u", "v", "w", "x", "y", "z"}
DIGIT == {"0", "1", "2", "3", "4", "5", "6", "7", "8", "9"}
SPECIAL ==
    {"!", "@", "#", "$", "%", "^", "&", "*", "(", ")", ",", ".", "?", "\"", ":", "{", "}", "|",
     "<", ">", "_", "-", "+", "=", "[", "]", "\\", "/", ";", "'", "grave", "~"}     \* "grave" stands for the backtick

\* re.search(r'[...]', password) is not None
re_search(class, password) == \E i \in DOMAIN password : password[i] \in class

ERR_LENGTH == "Password must be at least 8 characters long"
ERR_UPPER == "Password must contain at least one uppercase letter"
ERR_LOWER == "Password must contain at least one lowercase letter"
ERR_DIGIT == "Password must contain at least one number (0-9)"
ERR_SPECIAL == "Password must contain at least one special character"

\* "; ".join(errors): the items with the separator between them
RECURSIVE join(_, _)
join(sep, items) ==
    IF items = <<>> THEN <<>>
    ELSE IF Len(items) = 1 THEN items
    ELSE <<Head(items), sep>> \o join(sep, Tail(items))

\* (mutant) the checks stop at the first violated rule
validate_password_first_error(password) ==
    IF Len(password) < 8 THEN {<<ERR_LENGTH>>}
    ELSE IF ~re_search(UPPER, password) THEN {<<ERR_UPPER>>}
    ELSE IF ~re_search(LOWER, password) THEN {<<ERR_LOWER>>}
    ELSE IF ~re_search(DIGIT, password) THEN {<<ERR_DIGIT>>}
    ELSE IF ~re_search(SPECIAL, password) THEN {<<ERR_SPECIAL>>}
    ELSE {}

\* Optional[str]: {} for None, {text} for the joined messages
validate_password(password) ==
    LET e1 == IF Len(password) < 8 THEN <<ERR_LENGTH>> ELSE <<>>
        e2 == IF ~re_search(UPPER, password) THEN e1 \o <<ERR_UPPER>> ELSE e1
        e3 == IF ~re_search(LOWER, password) THEN e2 \o <<ERR_LOWER>> ELSE e2
        e4 == IF ~re_search(DIGIT, password) THEN e3 \o <<ERR_DIGIT>> ELSE e3
        errors == IF ~re_search(SPECIAL, password) THEN e4 \o <<ERR_SPECIAL>> ELSE e4
    IN  IF errors # <<>> THEN {join("; ", errors)} ELSE {}

-----------------------------------------------------------------------------
(* Store helpers *)

LeastUnused(S) == CHOOSE x \in 1..(Cardinality(S) + 1) : x \notin S /\ \A y \in 1..(x - 1) : y \in S

\* secrets.token_urlsafe(32): any value.  The values that matter are those already in
\* use (a collision) and one that is not (named by the least unused number).
RandsInUse == {r.token[2] : r \in refresh_tokens}
RandsInUseAt(t) == {r.token[2] : r \in {x \in refresh_tokens : x.token[3] = t}}
RandPool(t) == RandsInUseAt(t) \cup {LeastUnused(RandsInUse)}

NextId(rows) == Cardinality(rows) + 1

\* Pydantic's UUID fields accept a UUID, a string or bytes, never an int; ids are Integer
\* columns (models.py), so a row's id never validates as a UUID.
ValidatesAsUUID(id) == id \notin Int

UserByEmail(email) == {u \in users : u.email = email}
UserById(id) == {u \in users : u.id = id}

-----------------------------------------------------------------------------
(* Responses *)

Resp0 ==
    [op |-> "none", status |-> 0, detail |-> <<>>,
     cred |-> NoText, token |-> NoToken,
     access_token |-> NoText, refresh_token |-> NoToken, key |-> NoText,
     auth_type |-> None, scopes |-> <<>>, user_email |-> None, role |-> None,
     replay |-> FALSE, paths |-> {}, authenticated |-> FALSE, at |-> NoTime,
     expires_in_days |-> {}, key_id |-> [uuid |-> FALSE, value |-> 0], listed |-> {},
     password |-> <<>>, email |-> None, password_error |-> {}, expires_at |-> {}]

\* A request task: where it is in its handler, the row it selected, and the writes its
\* open transaction holds (the time they were made at; the random part of the new token
\* is seen by nobody before the commit and is drawn there).
Sess0 ==
    [pc |-> "idle", row_id |-> 0, replay |-> FALSE, t |-> NoTime, email |-> None,
     password |-> <<>>]

-----------------------------------------------------------------------------
(* Clock *)

Tick ==
    /\ ticks < MaxTicks
    /\ \E d \in TickSteps : now' = now + d
    /\ ticks' = ticks + 1
    /\ UNCHANGED <<users, api_keys, refresh_tokens, sess, resp, issued, rotated, successors>>

-----------------------------------------------------------------------------
(* POST /auth/login *)

\* (mutant) the password is not verified
authenticate_user_by_email_only(email, password) == UserByEmail(email)

authenticate_user(email, password) ==
    {u \in UserByEmail(email) : verify_password(password, u.hashed_password)}

Login(email, password) ==
    LET found == authenticate_user(email, password) IN
    IF found = {}
    THEN /\ resp' = [Resp0 EXCEPT !.op = "login", !.status = 401,
                                  !.detail = <<"Incorrect email or password">>,
                                  !.user_email = email, !.password = password]
         /\ UNCHANGED <<users, api_keys, refresh_tokens, now, ticks, sess, issued,
                        rotated, successors>>
    ELSE
      /\ Cardinality(refresh_tokens) < MaxRefreshRows
      /\ \E rand \in RandPool(now) :
           LET user == TheOne(found)
               access_token == create_access_token(user.email, {ACCESS_TOKEN_EXPIRE_MINUTES}, now)
               refresh_token == create_refresh_token(rand, now)
               row == [id |-> NextId(refresh_tokens), token |-> refresh_token,
                       user_id |-> user.id, expires_at |-> now + RefreshTtl,
                       created_at |-> now, revoked_at |-> NoTime]
           IN  IF \E r \in refresh_tokens : r.token = refresh_token
               THEN \* unique constraint on refresh_tokens.token: IntegrityError
                    /\ resp' = [Resp0 EXCEPT !.op = "login", !.status = 500,
                                             !.detail = <<"IntegrityError">>,
                                             !.user_email = email, !.password = password]
                    /\ UNCHANGED <<refresh_tokens, issued>>
               ELSE /\ refresh_tokens' = refresh_tokens \cup {row}
                    /\ issued' = issued \cup {access_token}
                    /\ resp' = [Resp0 EXCEPT !.op = "login", !.status = 200,
                                             !.access_token = access_token,
                                             !.refresh_token = refresh_token,
                                             !.user_email = email, !.password = password]
      /\ UNCHANGED <<users, api_keys, now, ticks, sess, rotated, successors>>

-----------------------------------------------------------------------------
(* POST /auth/refresh: one request task p, in the steps between its awaits *)

\* (mutant) the lookup forgets the revoked_at filter
FindRefreshTokenIgnoringRevocation(token) ==
    {r \in refresh_tokens : r.token = token /\ r.expires_at > now}

\* select ... where token == refresh_token and revoked_at is null and expires_at > utcnow()
FindActiveRefreshToken(token) ==
    {r \in refresh_tokens : r.token = token /\ r.revoked_at = NoTime /\ r.expires_at > now}

RefreshTokenById(id) == TheOne({r \in refresh_tokens : r.id = id})

\* (mutant) the rejection says why the token was refused
RefreshSelectTellingCause(p, token) ==
    /\ sess[p].pc = "idle"
    /\ LET found == FindActiveRefreshToken(token) IN
       IF found = {}
       THEN /\ resp' = [Resp0 EXCEPT !.op = "refresh", !.status = 401,
                                     !.detail = IF \E r \in refresh_tokens : r.token = token
                                                THEN <<"Refresh token revoked or expired">>
                                                ELSE <<"Unknown refresh token">>,
                                     !.token = token, !.replay = (token \in rotated)]
            /\ UNCHANGED sess
       ELSE /\ sess' = [sess EXCEPT ![p] =
                          [Sess0 EXCEPT !.pc = "selected", !.row_id = TheOne(found).id,
                                        !.replay = (token \in rotated)]]
            /\ UNCHANGED resp
    /\ UNCHANGED <<users, api_keys, refresh_tokens, now, ticks, issued, rotated, successors>>

RefreshSelect(p, token) ==
    /\ sess[p].pc = "idle"
    /\ LET found == FindActiveRefreshToken(token) IN
       IF found = {}
       THEN /\ resp' = [Resp0 EXCEPT !.op = "refresh", !.status = 401,
                                     !.detail = <<"Invalid or expired refresh token">>,
                                     !.token = token, !.replay = (token \in rotated)]
            /\ UNCHANGED sess
       ELSE /\ sess' = [sess EXCEPT ![p] =
                          [Sess0 EXCEPT !.pc = "selected", !.row_id = TheOne(found).id,
                                        !.replay = (token \in rotated)]]
            /\ UNCHANGED resp
    /\ UNCHANGED <<users, api_keys, refresh_tokens, now, ticks, issued, rotated, successors>>

\* A row another open transaction has updated and not yet committed is locked.
RowLocked(p, id) == \E q \in Procs \ {p} : sess[q].pc = "flushed" /\ sess[q].row_id = id

\* (mutant) the old row is deleted instead of being marked
RevokedByDeleting(rows, id, t) == {r \in rows : r.id # id}

\* (mutant) the new row is given to the first user
InsertedForFirstUser(rows, token, user_id, t) ==
    rows \cup {[id |-> NextId(rows), token |-> token, user_id |-> 1,
                expires_at |-> t + RefreshTtl, created_at |-> t, revoked_at |-> NoTime]}

\* The transaction's writes: UPDATE refresh_tokens SET revoked_at, INSERT the new row.
Revoked(rows, id, t) ==
    {IF r.id = id THEN [r EXCEPT !.revoked_at = t] ELSE r : r \in rows}

Inserted(rows, token, user_id, t) ==
    rows \cup {[id |-> NextId(rows), token |-> token, user_id |-> user_id,
                expires_at |-> t + RefreshTtl, created_at |-> t, revoked_at |-> NoTime]}

\* (mutant) the UPDATE is committed on its own, before the INSERT
RevokeAutocommitted(rows, id, t) ==
    {IF r.id = id THEN [r EXCEPT !.revoked_at = t] ELSE r : r \in rows}

\* The committed rows while the transaction has sent its writes and not committed.
WritesBeforeCommit(rows, id, t) == rows

\* The committed rows once the transaction commits.
WritesAtCommit(rows, id, token, user_id, t) ==
    Inserted(Revoked(rows, id, t), token, user_id, t)

\* unique=True on refresh_tokens.token
TokenTaken(rows, token) == \E r \in rows : r.token = token

RefreshFlush(p) ==
    /\ sess[p].pc = "selected"
    /\ LET token_record == RefreshTokenById(sess[p].row_id)
           found == UserById(token_record.user_id)
       IN
       IF found = {}
       THEN /\ resp' = [Resp0 EXCEPT !.op = "refresh", !.status = 401,
                                     !.detail = <<"User not found">>,
                                     !.token = token_record.token, !.replay = sess[p].replay]
            /\ sess' = [sess EXCEPT ![p] = Sess0]
            /\ UNCHANGED refresh_tokens
       ELSE /\ ~RowLocked(p, token_record.id)
            /\ sess' = [sess EXCEPT ![p].pc = "flushed", ![p].t = now]
            /\ refresh_tokens' = WritesBeforeCommit(refresh_tokens, token_record.id, now)
            /\ UNCHANGED resp
    /\ UNCHANGED <<users, api_keys, now, ticks, issued, rotated, successors>>

RefreshCommit(p) ==
    /\ sess[p].pc = "flushed"
    /\ Cardinality(refresh_tokens) < MaxRefreshRows
    /\ \E rand \in RandPool(sess[p].t) :
       LET s == sess[p]
           token_record == RefreshTokenById(s.row_id)
           user == TheOne(UserById(token_record.user_id))
           new_refresh_token_val == create_refresh_token(rand, s.t)
       IN
       IF TokenTaken(refresh_tokens, new_refresh_token_val)
       THEN \* IntegrityError: the transaction rolls back, the request fails
            /\ resp' = [Resp0 EXCEPT !.op = "refresh", !.status = 500,
                                     !.token = token_record.token, !.replay = s.replay]
            /\ UNCHANGED <<refresh_tokens, issued, rotated, successors>>
       ELSE LET access_token ==
                    create_access_token(user.email, {ACCESS_TOKEN_EXPIRE_MINUTES}, now)
            IN  /\ refresh_tokens' =
                        WritesAtCommit(refresh_tokens, s.row_id, new_refresh_token_val,
                                       user.id, s.t)
                /\ successors' = successors \cup {<<s.row_id, NextId(refresh_tokens)>>}
                /\ rotated' = rotated \cup {token_record.token}
                /\ issued' = issued \cup {access_token}
                /\ resp' = [Resp0 EXCEPT !.op = "refresh", !.status = 200,
                                         !.token = token_record.token, !.replay = s.replay,
                                         !.access_token = access_token,
                                         !.refresh_token = new_refresh_token_val,
                                         !.user_email = user.email]
    /\ sess' = [sess EXCEPT ![p] = Sess0]
    /\ UNCHANGED <<users, api_keys, now, ticks>>

\* The request task dies (process killed, connection lost): its transaction rolls back.
RefreshCrash(p) ==
    /\ sess[p].pc \in {"selected", "flushed"}
    /\ sess' = [sess EXCEPT ![p] = Sess0]
    /\ resp' = [Resp0 EXCEPT !.op = "refresh", !.detail = <<"aborted", sess[p].pc>>]
    /\ UNCHANGED <<users, api_keys, refresh_tokens, now, ticks, issued, rotated, successors>>

-----------------------------------------------------------------------------
(* Rows present in the database before the service starts *)

SeedUsers ==
    {[id |-> 1, email |-> "a@x.com",
      hashed_password |-> get_password_hash(<<"S", "e", "c", "u", "r", "e", "1", "2", "3", "!">>),
      is_active |-> TRUE, role |-> "user"],
     [id |-> 2, email |-> "admin@x.com",
      hashed_password |-> get_password_hash(<<"p", "w", "m">>),
      is_active |-> TRUE, role |-> "admin"]}

\* What a client may present: a token some row holds, or a token no row holds.
RefreshTokenInputs ==
    {r.token : r \in refresh_tokens} \cup {create_refresh_token(0, 0)}

InitRefresh ==
    /\ users = SeedUsers
    /\ api_keys = {}
    /\ refresh_tokens = {}
    /\ now = 0
    /\ ticks = 0
    /\ sess = [p \in Procs |-> Sess0]
    /\ resp = Resp0
    /\ issued = {}
    /\ rotated = {}
    /\ successors = {}

\* The client of this specification logs in as one user, with the right or a wrong password.
DoLogin == \E email \in {"a@x.com"}, password \in Passwords : Login(email, password)
DoRefreshSelect == \E p \in Procs, token \in RefreshTokenInputs : RefreshSelect(p, token)
DoRefreshFlush == \E p \in Procs : RefreshFlush(p)
DoRefreshCommit == \E p \in Procs : RefreshCommit(p)
DoRefreshCrash == \E p \in Procs : RefreshCrash(p)

NextRefresh ==
    \/ Tick
    \/ DoLogin
    \/ DoRefreshSelect
    \/ DoRefreshFlush
    \/ DoRefreshCommit
    \/ DoRefreshCrash

SpecRefresh == InitRefresh /\ [][NextRefresh]_vars

-----------------------------------------------------------------------------
(* POST /auth/refresh with two users logged in: each holds one refresh token *)

LoginRow(id, rand, user_id, t) ==
    [id |-> id, token |-> create_refresh_token(rand, t), user_id |-> user_id,
     expires_at |-> t + RefreshTtl, created_at |-> t, revoked_at |-> NoTime]

InitRotate ==
    /\ users = SeedUsers
    /\ api_keys = {}
    /\ refresh_tokens = {LoginRow(1, 1, 1, 0), LoginRow(2, 2, 2, 0)}
    /\ now = 0
    /\ ticks = 0
    /\ sess = [p \in Procs |-> Sess0]
    /\ resp = Resp0
    /\ issued = {}
    /\ rotated = {}
    /\ successors = {}

NextRotate ==
    \/ Tick
    \/ DoRefreshSelect
    \/ DoRefreshFlush
    \/ DoRefreshCommit
    \/ DoRefreshCrash

SpecRotate == InitRotate /\ [][NextRotate]_vars

-----------------------------------------------------------------------------
(* POST /auth/login by any client: registered and unregistered emails, right and wrong *)
(* passwords                                                                          *)

LoginEmails == Emails \cup {"nobody@x.com"}

DoLoginAny == \E email \in LoginEmails, password \in Passwords : Login(email, password)

NextLogin ==
    \/ Tick
    \/ DoLoginAny

SpecLogin == InitRefresh /\ [][NextLogin]_vars

-----------------------------------------------------------------------------
(* POST /auth/signup: one request task p, in the steps between its awaits *)

\* `if password_error:` / `if db_user:`
Raised(opt) == opt # {} /\ opt # {<<>>}

SignupAnswer(email, password) ==
    [Resp0 EXCEPT !.op = "signup", !.email = email, !.password = password]

\* validate_password, then the existence check
SignupSelect(p, email, password) ==
    /\ sess[p].pc = "idle"
    /\ LET password_error == validate_password(password) IN
       IF Raised(password_error)
       THEN /\ resp' = [SignupAnswer(email, password) EXCEPT
                            !.status = 400, !.detail = TheOne(password_error),
                            !.password_error = password_error]
            /\ UNCHANGED sess
       ELSE IF UserByEmail(email) # {}
       THEN /\ resp' = [SignupAnswer(email, password) EXCEPT
                            !.status = 400, !.detail = <<"Email already registered">>]
            /\ UNCHANGED sess
       ELSE /\ sess' = [sess EXCEPT ![p] = [Sess0 EXCEPT !.pc = "checked", !.email = email,
                                                         !.password = password]]
            /\ UNCHANGED resp
    /\ UNCHANGED <<users, api_keys, refresh_tokens, now, ticks, issued, rotated, successors>>

\* (mutant) the users table has no unique index on email
EmailTakenNever(rows, email) == FALSE

\* unique=True on users.email
EmailTaken(rows, email) == \E u \in rows : u.email = email

\* (mutant) a new user is given the admin role
UserRowAsAdmin(id, email, hashed_password) ==
    [id |-> id, email |-> email, hashed_password |-> hashed_password, is_active |-> TRUE,
     role |-> "admin"]

\* models.User(email=..., hashed_password=...) with the column defaults
UserRow(id, email, hashed_password) ==
    [id |-> id, email |-> email, hashed_password |-> hashed_password, is_active |-> TRUE,
     role |-> "user"]

\* db.add(new_user); commit; refresh; then the response is built from the row
SignupCommit(p) ==
    /\ sess[p].pc = "checked"
    /\ LET s == sess[p]
           new_user == UserRow(NextId(users), s.email, get_password_hash(s.password))
       IN
       IF EmailTaken(users, s.email)
       THEN \* IntegrityError: the transaction rolls back, the request fails
            /\ resp' = [SignupAnswer(s.email, s.password) EXCEPT
                            !.status = 500, !.detail = <<"IntegrityError">>]
            /\ UNCHANGED users
       ELSE /\ users' = users \cup {new_user}
            /\ resp' = IF ValidatesAsUUID(new_user.id)
                       THEN [SignupAnswer(s.email, s.password) EXCEPT
                                !.status = 201, !.user_email = new_user.email]
                       ELSE \* UserResponse.id: UUID does not accept the Integer id
                            [SignupAnswer(s.email, s.password) EXCEPT
                                !.status = 500, !.detail = <<"ResponseValidationError">>]
    /\ sess' = [sess EXCEPT ![p] = Sess0]
    /\ UNCHANGED <<api_keys, refresh_tokens, now, ticks, issued, rotated, successors>>

SignupEmails == {"a@x.com", "new@x.com", "test@example.com"}

SignupPasswords ==
    {<<"S", "e", "c", "u", "r", "e", "P", "a", "s", "s", "1", "2", "3", "!">>,
     <<"S", "h", "o", "r", "t", "1", "!">>,
     <<"w", "e", "a", "k">>}

InitSignup ==
    /\ users \in {{}, SeedUsers}
    /\ api_keys = {}
    /\ refresh_tokens = {}
    /\ now = 0
    /\ ticks = 0
    /\ sess = [p \in Procs |-> Sess0]
    /\ resp = Resp0
    /\ issued = {}
    /\ rotated = {}
    /\ successors = {}

DoSignupSelect ==
    \E p \in Procs, email \in SignupEmails, password \in SignupPasswords :
        SignupSelect(p, email, password)
DoSignupCommit == \E p \in Procs : SignupCommit(p)

-----------------------------------------------------------------------------
(* validate_password applied to candidate passwords *)

PwAlphabet == {"A", "a", "1", "!", " "}

RECURSIVE SeqsUpTo(_, _)
SeqsUpTo(S, n) ==
    IF n = 0 THEN {<<>>}
    ELSE LET shorter == SeqsUpTo(S, n - 1) IN
         shorter \cup {Append(w, c) : w \in shorter, c \in S}

\* A candidate: up to MaxCoreLen characters of any kind, then padding that belongs to no
\* character class, so that every set of rules is met on both sides of the length limit.
Paddings == {<<>>, <<" ", " ", " ">>, <<" ", " ", " ", " ">>}
PasswordInputs == {core \o pad : core \in SeqsUpTo(PwAlphabet, MaxCoreLen), pad \in Paddings}

InitPassword ==
    /\ users = {}
    /\ api_keys = {}
    /\ refresh_tokens = {}
    /\ now = 0
    /\ ticks = 0
    /\ sess = [p \in Procs |-> Sess0]
    /\ resp \in {[Resp0 EXCEPT !.password = password] : password \in PasswordInputs}
    /\ issued = {}
    /\ rotated = {}
    /\ successors = {}

ValidatePassword ==
    /\ resp.op = "none"
    /\ resp' = [resp EXCEPT !.op = "validate_password",
                            !.password_error = validate_password(resp.password)]
    /\ UNCHANGED <<users, api_keys, refresh_tokens, now, ticks, sess, issued, rotated,
                   successors>>

NextPassword == ValidatePassword

SpecPassword == InitPassword /\ [][NextPassword]_vars

-----------------------------------------------------------------------------
(* Principal resolver: app/auth.py *)

Range(f) == {f[i] : i \in DOMAIN f}

\* str.split(sep) on a non-empty or empty string
RECURSIVE split_from(_, _, _)
split_from(s, sep, cur) ==
    IF s = <<>> THEN <<cur>>
    ELSE IF Head(s) = sep
         THEN <<cur>> \o split_from(Tail(s), sep, <<>>)
         ELSE split_from(Tail(s), sep, cur \o <<Head(s)>>)
split(s, sep) == split_from(s, sep, <<>>)

NoUser ==
    [id |-> 0, email |-> None, hashed_password |-> get_password_hash(<<>>),
     is_active |-> FALSE, role |-> None]

Rejected(status, detail, paths) ==
    [ok |-> FALSE, status |-> status, detail |-> detail, user |-> NoUser,
     auth_type |-> None, scopes |-> <<>>, paths |-> paths]

Resolved(user, auth_type, scopes, paths) ==
    [ok |-> TRUE, status |-> 200, detail |-> <<>>, user |-> user,
     auth_type |-> auth_type, scopes |-> scopes, paths |-> paths]

\* (mutant) the expiry claim is not checked
jwt_decode_ignoring_exp(token) ==
    /\ token.head = JWT_HEAD
    /\ token.sig = SECRET_KEY

\* jwt.decode(token, SECRET_KEY, algorithms=[ALGORITHM]): the claims, or JWTError when the
\* token is malformed, the signature does not verify or exp lies before the current time.
jwt_decode_ok(token) ==
    /\ token.head = JWT_HEAD
    /\ token.sig = SECRET_KEY
    /\ token.exp >= now

\* (mutant) the subject is not used for the lookup
get_current_user_from_token_first_user(token) ==
    IF ~jwt_decode_ok(token)
    THEN Rejected(401, <<"Could not validate credentials">>, {"jwt"})
    ELSE IF token.sub = None
    THEN Rejected(401, <<"Could not validate credentials">>, {"jwt"})
    ELSE IF UserByEmail(token.sub) = {}
    THEN Rejected(401, <<"Could not validate credentials">>, {"jwt"})
    ELSE Resolved(TheOne(UserById(1)), "jwt", <<>>, {"jwt"})

get_current_user_from_token(token) ==
    IF ~jwt_decode_ok(token)
    THEN Rejected(401, <<"Could not validate credentials">>, {"jwt"})
    ELSE IF token.sub = None
    THEN Rejected(401, <<"Could not validate credentials">>, {"jwt"})
    ELSE IF UserByEmail(token.sub) = {}
    THEN Rejected(401, <<"Could not validate credentials">>, {"jwt"})
    ELSE Resolved(TheOne(UserByEmail(token.sub)), "jwt", <<>>, {"jwt"})

\* (mutant) the lookup forgets the is_active filter
FindApiKeyIgnoringActive(api_key_value) ==
    {k \in api_keys : k.key = api_key_value}

\* select(APIKey).filter(APIKey.key == api_key_value, APIKey.is_active == True)
FindActiveApiKey(api_key_value) ==
    {k \in api_keys : k.key = api_key_value /\ k.is_active}

parse_scopes(scopes) == IF scopes # <<>> THEN split(scopes, ",") ELSE <<>>

get_current_user_from_api_key(api_key_value) ==
    IF ~startswith(api_key_value, SK_PREFIX)
    THEN Rejected(401, <<"Invalid API key">>, {"api_key"})
    ELSE IF FindActiveApiKey(api_key_value) = {}
    THEN Rejected(401, <<"Invalid API key">>, {"api_key"})
    ELSE LET key_record == TheOne(FindActiveApiKey(api_key_value)) IN
         IF key_record.expires_at # NoTime /\ key_record.expires_at < now
         THEN Rejected(401, <<"API key has expired">>, {"api_key"})
         ELSE IF UserById(key_record.user_id) = {}
         THEN Rejected(401, <<"Invalid API key">>, {"api_key"})
         ELSE Resolved(TheOne(UserById(key_record.user_id)), "api_key",
                       parse_scopes(key_record.scopes), {"api_key"})

ALL_SCOPES == <<"*">>

\* (mutant) a JWT principal is given no scopes
jwt_scopes_empty == <<>>

\* return user, "jwt", ["*"]
jwt_scopes == <<ALL_SCOPES>>

\* (mutant) a failed API-key lookup falls through to the JWT path
get_current_user_falling_through(token) ==
    LET k == get_current_user_from_api_key(token)
        j == get_current_user_from_token(token)
    IN  IF startswith(token, SK_PREFIX) /\ k.ok
        THEN k
        ELSE IF j.ok
             THEN [j EXCEPT !.scopes = jwt_scopes,
                            !.paths = IF startswith(token, SK_PREFIX)
                                      THEN {"api_key", "jwt"} ELSE {"jwt"}]
             ELSE Rejected(401, <<"Invalid authentication credentials">>,
                           IF startswith(token, SK_PREFIX) THEN {"api_key", "jwt"} ELSE {"jwt"})

get_current_user(token) ==
    IF startswith(token, SK_PREFIX)
    THEN get_current_user_from_api_key(token)
    ELSE LET j == get_current_user_from_token(token) IN
         IF j.ok
         THEN [j EXCEPT !.scopes = jwt_scopes]
         ELSE Rejected(401, <<"Invalid authentication credentials">>, j.paths)

\* the tuple a route receives from Depends(get_current_user)
current_user_data(r) == <<r.user, r.auth_type, r.scopes>>

\* `user, auth_type = current_user_data`: unpacking succeeds only for a tuple of two
UnpacksToTwo(tuple) == Len(tuple) = 2

-----------------------------------------------------------------------------
(* Authorization gates: app/auth.py *)

\* (mutant) the sentinel is not honoured
require_scope_without_sentinel(scope, scopes) == scope \in Range(scopes)

\* scope_checker: TRUE when it returns the user, FALSE when it raises 403
require_scope(scope, scopes) ==
    IF ALL_SCOPES \in Range(scopes) THEN TRUE
    ELSE IF scope \notin Range(scopes) THEN FALSE
    ELSE TRUE

\* (mutant) the gate lets every resolved principal through
check_admin_any_role(user) == TRUE

\* check_admin: TRUE when it returns the user, FALSE when it raises 403
check_admin(user) == user.role = "admin"

READ == <<"r", "e", "a", "d">>
WRITE == <<"w", "r", "i", "t", "e">>

-----------------------------------------------------------------------------
(* Protected routes: app/routers/protected.py *)

Answer(op, token, r) ==
    [Resp0 EXCEPT !.op = op, !.cred = token, !.at = now, !.paths = r.paths,
                  !.authenticated = r.ok]

\* (mutant) a credential that does not resolve is answered as a missing permission
UnauthorizedAsForbidden(op, token, r) ==
    [Answer(op, token, r) EXCEPT !.status = 403, !.detail = r.detail]

\* the HTTPException raised by get_current_user reaches the client as it is
Unauthorized(op, token, r) ==
    [Answer(op, token, r) EXCEPT !.status = r.status, !.detail = r.detail]

Principal(op, token, r, status, detail) ==
    [Answer(op, token, r) EXCEPT !.status = status, !.detail = detail,
                                 !.user_email = r.user.email, !.auth_type = r.auth_type,
                                 !.scopes = r.scopes, !.role = r.user.role]

user_only_route(token) ==
    LET r == get_current_user(token) IN
    IF ~r.ok THEN Unauthorized("user_only", token, r)
    ELSE Principal("user_only", token, r, 200, <<"This is a protected route">>)

service_only_route(token) ==
    LET r == get_current_user(token) IN
    IF ~r.ok THEN Unauthorized("service_only", token, r)
    ELSE IF ~require_scope(READ, r.scopes)
    THEN Principal("service_only", token, r, 403, <<"Missing required scope: ">> \o READ)
    ELSE Principal("service_only", token, r, 200, <<"You have read access">>)

admin_route(token) ==
    LET r == get_current_user(token) IN
    IF ~r.ok THEN Unauthorized("admin", token, r)
    ELSE IF ~check_admin(r.user)
    THEN Principal("admin", token, r, 403, <<"Admin privileges required">>)
    ELSE Principal("admin", token, r, 200, <<"This is an admin route">>)

\* (mutant) a key is deactivated by a request that presents a credential
DeactivatingKeys ==
    /\ api_keys' = {[k EXCEPT !.is_active = FALSE] : k \in api_keys}
    /\ UNCHANGED <<users, refresh_tokens, now, ticks, sess, issued, rotated, successors>>

\* the resolver and the gates only select
ReadOnly == UNCHANGED <<users, api_keys, refresh_tokens, now, ticks, sess, issued, rotated,
                        successors>>

UserOnly(token) == resp' = user_only_route(token) /\ ReadOnly
ServiceOnly(token) == resp' = service_only_route(token) /\ ReadOnly
Admin(token) == resp' = admin_route(token) /\ ReadOnly

-----------------------------------------------------------------------------
(* GET /auth/me: app/routers/auth.py *)

Me(token) ==
    LET r == get_current_user(token)
        answer == [Answer("me", token, r) EXCEPT !.auth_type = r.auth_type]
    IN
    /\ IF ~r.ok
       THEN resp' = [answer EXCEPT !.status = r.status, !.detail = r.detail]
       ELSE IF ~UnpacksToTwo(current_user_data(r))
       THEN \* ValueError: too many values to unpack
            resp' = [answer EXCEPT !.status = 500]
       ELSE IF ~ValidatesAsUUID(r.user.id)
       THEN \* UserResponse.id: UUID does not accept the Integer id
            resp' = [answer EXCEPT !.status = 500, !.detail = <<"ResponseValidationError">>]
       ELSE resp' = [answer EXCEPT !.status = 200, !.user_email = r.user.email]
    /\ ReadOnly

-----------------------------------------------------------------------------
(* API keys: app/routers/keys.py *)

max_expiration_days == 90

KeyBodies == {"k1", "k2"}      \* values secrets.token_urlsafe(32) may return

\* Python truthiness of an Optional[int]: {} is None, {n} is n
Truthy(opt) == opt # {} /\ opt # {0}

\* Lines 39-48 of create_api_key: {} when the request is refused with 400, else
\* {expires_at} for a request handled at time t
key_expires_at(expires_in_days, t) ==
    IF Truthy(expires_in_days) /\ TheOne(expires_in_days) > max_expiration_days
    THEN {}
    ELSE LET expires_in == IF Truthy(expires_in_days) THEN TheOne(expires_in_days)
                           ELSE max_expiration_days
         IN  {t + expires_in * DayMinutes}

KeyRow(id, key, name, user_id, expires_at, created_at) ==
    [id |-> id, key |-> key, name |-> name, user_id |-> user_id, is_active |-> TRUE,
     scopes |-> <<>>, expires_at |-> expires_at, created_at |-> created_at,
     revoked_at |-> NoTime]

CreateApiKey(token, name, expires_in_days) ==
    LET r == get_current_user(token)
        answer == [Answer("create_api_key", token, r) EXCEPT
                       !.expires_in_days = expires_in_days, !.user_email = r.user.email,
                       !.auth_type = r.auth_type]
    IN
    /\ IF ~r.ok
       THEN /\ resp' = [answer EXCEPT !.status = r.status, !.detail = r.detail]
            /\ UNCHANGED api_keys
       ELSE IF ~UnpacksToTwo(current_user_data(r))
       THEN \* ValueError: too many values to unpack
            /\ resp' = [answer EXCEPT !.status = 500]
            /\ UNCHANGED api_keys
       ELSE IF key_expires_at(expires_in_days, now) = {}
       THEN /\ resp' = [answer EXCEPT !.status = 400,
                                      !.detail = <<"Expiration cannot exceed 90 days">>]
            /\ UNCHANGED api_keys
       ELSE \E body \in KeyBodies :
              LET api_key == generate_api_key(body)
                  expires_at == TheOne(key_expires_at(expires_in_days, now))
                  new_key == KeyRow(NextId(api_keys), hash_api_key(api_key), name, r.user.id,
                                    expires_at, now)
              IN  IF \E k \in api_keys : k.key = new_key.key
                  THEN \* unique constraint on api_keys.key
                       /\ resp' = [answer EXCEPT !.status = 500]
                       /\ UNCHANGED api_keys
                  ELSE /\ api_keys' = api_keys \cup {new_key}
                       /\ resp' = IF ValidatesAsUUID(new_key.id)
                                  THEN [answer EXCEPT !.status = 201, !.key = api_key]
                                  ELSE [answer EXCEPT !.status = 500]
    /\ UNCHANGED <<users, refresh_tokens, now, ticks, sess, issued, rotated, successors>>

\* key_id: UUID path parameter.  [uuid |-> whether the path segment parses as a UUID,
\* value |-> the value it denotes]
RevokeApiKey(token, key_id) ==
    LET r == get_current_user(token)
        answer == [Answer("revoke_api_key", token, r) EXCEPT !.user_email = r.user.email,
                                                             !.auth_type = r.auth_type,
                                                             !.key_id = key_id]
    IN
    /\ IF ~r.ok
       THEN /\ resp' = [answer EXCEPT !.status = r.status, !.detail = r.detail]
            /\ UNCHANGED api_keys
       ELSE IF ~key_id.uuid
       THEN /\ resp' = [answer EXCEPT !.status = 422]
            /\ UNCHANGED api_keys
       ELSE IF ~UnpacksToTwo(current_user_data(r))
       THEN \* ValueError: too many values to unpack
            /\ resp' = [answer EXCEPT !.status = 500]
            /\ UNCHANGED api_keys
       ELSE LET found == {k \in api_keys : k.id = key_id.value /\ k.user_id = r.user.id} IN
            IF found = {}
            THEN /\ resp' = [answer EXCEPT !.status = 404, !.detail = <<"API key not found">>]
                 /\ UNCHANGED api_keys
            ELSE /\ api_keys' = {IF k \in found
                                 THEN [k EXCEPT !.is_active = FALSE, !.revoked_at = now]
                                 ELSE k : k \in api_keys}
                 /\ resp' = IF ValidatesAsUUID(key_id.value)
                            THEN [answer EXCEPT !.status = 200]
                            ELSE [answer EXCEPT !.status = 500]
    /\ UNCHANGED <<users, refresh_tokens, now, ticks, sess, issued, rotated, successors>>

\* response_model=List[schemas.APIKeyList]: the fields of a row that the schema keeps
APIKeyList(k) ==
    [id |-> k.id, name |-> k.name, is_active |-> k.is_active, expires_at |-> k.expires_at,
     created_at |-> k.created_at, revoked_at |-> k.revoked_at]

ListApiKeys(token) ==
    LET r == get_current_user(token)
        answer == [Answer("list_api_keys", token, r) EXCEPT !.user_email = r.user.email,
                                                           !.auth_type = r.auth_type]
    IN
    /\ IF ~r.ok
       THEN resp' = [answer EXCEPT !.status = r.status, !.detail = r.detail]
       ELSE IF ~UnpacksToTwo(current_user_data(r))
       THEN \* ValueError: too many values to unpack
            resp' = [answer EXCEPT !.status = 500]
       ELSE LET keys == {k \in api_keys : k.user_id = r.user.id} IN
            IF \A k \in keys : ValidatesAsUUID(k.id)
            THEN resp' = [answer EXCEPT !.status = 200,
                                        !.listed = {APIKeyList(k) : k \in keys}]
            ELSE resp' = [answer EXCEPT !.status = 500]
    /\ ReadOnly

-----------------------------------------------------------------------------
(* The expiry that create_api_key computes, for any expires_in_days of a request *)

\* APIKeyCreate.expires_in_days: Optional[int], with no constraint on the integer
ExpiresInDaysInputs == {{}} \cup {{n} : n \in (0 - MaxDays)..MaxDays}

InitExpiry ==
    /\ users = SeedUsers
    /\ api_keys = {}
    /\ refresh_tokens = {}
    /\ now \in {0, 1}
    /\ ticks = 0
    /\ sess = [p \in Procs |-> Sess0]
    /\ resp \in {[Resp0 EXCEPT !.expires_in_days = d] : d \in ExpiresInDaysInputs}
    /\ issued = {}
    /\ rotated = {}
    /\ successors = {}

ComputeKeyExpiry ==
    /\ resp.op = "none"
    /\ resp' = [resp EXCEPT !.op = "key_expires_at", !.at = now,
                            !.status = IF key_expires_at(resp.expires_in_days, now) = {}
                                       THEN 400 ELSE 0,
                            !.expires_at = key_expires_at(resp.expires_in_days, now)]
    /\ UNCHANGED <<users, api_keys, refresh_tokens, now, ticks, sess, issued, rotated,
                   successors>>

NextExpiry == ComputeKeyExpiry

SpecExpiry == InitExpiry /\ [][NextExpiry]_vars

-----------------------------------------------------------------------------
(* The service with rows already in its database, used through its protected routes *)

\* Stored scope lists: "", "write", "write,read", "*"
ScopeStrings == {<<>>, WRITE, WRITE \o <<",">> \o READ, ALL_SCOPES}

\* An api_keys row written before this revision.
SeedKey(key, user_id, active, scopes, expires_at) ==
    [id |-> 1, key |-> key, name |-> "seed", user_id |-> user_id, is_active |-> active,
     scopes |-> scopes, expires_at |-> expires_at, created_at |-> 0,
     revoked_at |-> IF active THEN NoTime ELSE 0]

\* The row holds a key in cleartext (left by the revision that looked keys up by value):
\* active with any scope list and owner, or revoked, or with an expiry; or it holds the
\* digest of a key, as create_api_key stores it.
SeedKeys ==
    {SeedKey(generate_api_key("k1"), u.id, TRUE, scopes, NoTime) :
        u \in SeedUsers, scopes \in ScopeStrings}
    \cup {SeedKey(generate_api_key("k1"), 1, FALSE, WRITE \o <<",">> \o READ, NoTime),
          SeedKey(generate_api_key("k1"), 1, TRUE, WRITE \o <<",">> \o READ, 1),
          SeedKey(hash_api_key(generate_api_key("k1")), 1, TRUE, WRITE \o <<",">> \o READ, NoTime)}

ForgedJwt == jwt_encode("a@x.com", RefreshTtl * 4, "attacker key")

\* What a client may present as its bearer credential
CredInputs == issued \cup {ForgedJwt} \cup {generate_api_key("k1")}

KeyIdInputs == {[uuid |-> u, value |-> 1] : u \in BOOLEAN}

Init ==
    /\ users = SeedUsers
    /\ api_keys \in {{}} \cup {{k} : k \in SeedKeys}
    /\ refresh_tokens = {}
    /\ now = 0
    /\ ticks = 0
    /\ sess = [p \in Procs |-> Sess0]
    /\ resp = Resp0
    /\ issued = {}
    /\ rotated = {}
    /\ successors = {}

AccessLogin ==
    /\ Cardinality(refresh_tokens) < MaxLogins
    /\ \E email \in Emails : Login(email, TheOne(UserByEmail(email)).hashed_password.of)
DoUserOnly == \E token \in CredInputs : UserOnly(token)
DoServiceOnly == \E token \in CredInputs : ServiceOnly(token)
DoAdmin == \E token \in CredInputs : Admin(token)
DoCreateApiKey ==
    \E token \in CredInputs, expires_in_days \in {{}, {30}, {91}} :
        CreateApiKey(token, "Service Key", expires_in_days)
DoRevokeApiKey == \E token \in CredInputs, key_id \in KeyIdInputs : RevokeApiKey(token, key_id)
DoListApiKeys == \E token \in CredInputs : ListApiKeys(token)
DoMe == \E token \in CredInputs : Me(token)

Next ==
    \/ Tick
    \/ AccessLogin
    \/ DoUserOnly
    \/ DoServiceOnly
    \/ DoAdmin
    \/ DoCreateApiKey
    \/ DoRevokeApiKey
    \/ DoListApiKeys
    \/ DoMe

Spec == Init /\ [][Next]_vars

-----------------------------------------------------------------------------
(* The resolver given JWTs of every kind: minted by create_access_token with any      *)
(* lifetime, for registered, unregistered and absent subjects, or signed by another   *)
(* key                                                                                *)

JwtSubjects == Emails \cup {None, "ghost@x.com"}

\* expires_delta: None, the smallest negative delta the clock can tell, zero, the default
TtlInputs == {{}, {0 - 1}, {0}, {ACCESS_TOKEN_EXPIRE_MINUTES}}

JwtInputs ==
    {create_access_token(sub, ttl, t) : sub \in JwtSubjects, ttl \in TtlInputs, t \in {0, now}}
    \cup {jwt_encode(sub, now + ACCESS_TOKEN_EXPIRE_MINUTES, "attacker key") : sub \in Emails}

JwtUserOnly == \E token \in JwtInputs : UserOnly(token)
JwtServiceOnly == \E token \in JwtInputs : ServiceOnly(token)
JwtAdmin == \E token \in JwtInputs : Admin(token)

NextJwt ==
    \/ Tick
    \/ JwtUserOnly
    \/ JwtServiceOnly
    \/ JwtAdmin

SpecJwt == InitRefresh /\ [][NextJwt]_vars

-----------------------------------------------------------------------------
(* Signup by concurrent clients, and the admin route called by registered users *)

\* A registered user calls GET /protected/admin with the access token login gives them.
AdminAfterSignup ==
    \E u \in users : Admin(create_access_token(u.email, {ACCESS_TOKEN_EXPIRE_MINUTES}, now))

NextSignup ==
    \/ DoSignupSelect
    \/ DoSignupCommit
    \/ AdminAfterSignup

SpecSignup == InitSignup /\ [][NextSignup]_vars

-----------------------------------------------------------------------------
(* Claims about the principal resolver, the gates and the key routes *)

ResolverOps ==
    {"user_only", "service_only", "admin", "create_api_key", "revoke_api_key", "list_api_keys",
     "me"}

Responds == resp' # resp /\ resp'.op \in ResolverOps

\* The api_keys rows a presented credential stands for: the row holding its digest, or
\* the row holding the credential itself.
KeyRecordsOf(cred, rows) == {k \in rows : k.key = cred \/ k.key = hash_api_key(cred)}

ExpiredAt(k, t) == k.expires_at # NoTime /\ k.expires_at < t

\* C4: a raw key returned by POST /keys/create, presented while its record is active and
\* unexpired, resolves through the api_key path to the user who created it.
C4_CreatedKeyResolves ==
    (resp.op = "create_api_key" /\ resp.authenticated /\ ~Truthy(resp.expires_in_days)) =>
        /\ resp.status = 201
        /\ \E k \in api_keys : k.key = hash_api_key(resp.key) /\ k.is_active
        /\ LET r == get_current_user(resp.key) IN
             r.ok /\ r.auth_type = "api_key" /\ r.user.email = resp.user_email

\* C5: the resolver never yields a principal for a credential whose api_keys record is
\* inactive, or has an expiry in the past: the request is answered 401.
C5_InactiveOrExpiredRejected ==
    [][Responds =>
         ((\E k \in KeyRecordsOf(resp'.cred, api_keys') :
              ~k.is_active \/ ExpiredAt(k, now'))
            => resp'.status = 401 /\ ~resp'.authenticated)]_vars

C5_Witness ==
    /\ resp.op = "user_only" /\ resp.status = 401
    /\ \E k \in api_keys : k.key = resp.cred /\ k.is_active /\ ExpiredAt(k, resp.at)

\* C6: a credential with the prefix sk_ is tried on the api_key path only, any other on
\* the jwt path only; generated keys have the prefix, issued access tokens do not; an
\* accepted principal's auth_type is api_key exactly when its credential has the prefix.
C6_ClassifiedByPrefix ==
    /\ resp.op \in ResolverOps =>
         IF startswith(resp.cred, SK_PREFIX)
         THEN resp.paths = {"api_key"} /\ (resp.authenticated => resp.auth_type = "api_key")
         ELSE resp.paths = {"jwt"} /\ (resp.authenticated => resp.auth_type = "jwt")
    /\ \A body \in KeyBodies : startswith(generate_api_key(body), SK_PREFIX)
    /\ \A token \in issued : ~startswith(token, SK_PREFIX)

C6_Witness ==
    /\ resp.op = "user_only" /\ resp.status = 200 /\ resp.auth_type = "api_key"
    /\ startswith(resp.cred, SK_PREFIX)

RECURSIVE JoinComma(_)
JoinComma(words) ==
    IF words = <<>> THEN <<>>
    ELSE IF Len(words) = 1 THEN Head(words)
    ELSE Head(words) \o <<",">> \o JoinComma(Tail(words))

C9_JwtForbiddenOnServiceRoute ==
    (resp.op = "service_only" /\ resp.cred \in issued /\ resp.authenticated) =>
        resp.status = 403

\* C10: a key created with only a name and presented to GET /protected/service-only is
\* granted access: 200, auth_type api_key.
C10_CreatedKeyAdmitted ==
    (resp.op = "create_api_key" /\ resp.authenticated /\ resp.expires_in_days = {}) =>
        /\ resp.status = 201
        /\ service_only_route(resp.key).status = 200
        /\ service_only_route(resp.key).auth_type = "api_key"

\* C11: GET /protected/admin answers a resolved principal 200 when the user's role is
\* "admin" and 403 otherwise, whether the principal came from a JWT or from an API key.
C11_AdminGate ==
    (resp.op = "admin" /\ resp.authenticated) =>
        /\ resp.auth_type \in {"jwt", "api_key"}
        /\ \E u \in users : u.email = resp.user_email /\ u.role = resp.role
        /\ resp.role = "admin" => resp.status = 200
        /\ resp.role # "admin" => resp.status = 403

C11_Witness ==
    /\ resp.op = "admin" /\ resp.status = 403 /\ resp.auth_type = "api_key"
    /\ resp.role = "user"

\* C12: any two credentials the resolver rejects are rejected with status 401 and with
\* one and the same message, whatever made each of them fail.
C12_UniformRejection ==
    \A c1 \in CredInputs, c2 \in CredInputs :
        LET r1 == get_current_user(c1)
            r2 == get_current_user(c2)
        IN  (~r1.ok /\ ~r2.ok) =>
                /\ r1.status = 401 /\ r2.status = 401
                /\ r1.detail = r2.detail

\* C13: on the routes behind the admin gate and the scope gate, a credential that does
\* not resolve is answered 401, and 403 is answered only to a resolved principal that
\* lacks the role or the scope.
C13_AuthenticationFirst ==
    resp.op \in {"admin", "service_only"} =>
        /\ ~resp.authenticated => resp.status = 401
        /\ resp.status = 403 =>
              /\ resp.authenticated
              /\ resp.auth_type \in {"jwt", "api_key"}
              /\ resp.op = "admin" => resp.role # "admin"
              /\ resp.op = "service_only" =>
                    (ALL_SCOPES \notin Range(resp.scopes) /\ READ \notin Range(resp.scopes))

C13_Witness ==
    /\ resp.op = "admin" /\ resp.status = 401 /\ resp.cred = ForgedJwt
    /\ \E u \in users : u.email = resp.cred.sub /\ u.role = "user"

WithinPolicy(expires_in_days) ==
    expires_in_days = {} \/ TheOne(expires_in_days) <= 90

CreateAnswered == resp' # resp /\ resp'.op = "create_api_key" /\ resp'.authenticated

\* C14: POST /keys/create by an authenticated principal, with expires_in_days omitted or
\* at most 90, is answered 201 and adds exactly one row to api_keys: active, owned by the
\* caller, holding the digest of the returned key, with an expiry (90 days from now when
\* expires_in_days is omitted).
C14_CreateInsertsRow ==
    [][(CreateAnswered /\ WithinPolicy(resp'.expires_in_days)) =>
         /\ resp'.status = 201
         /\ \E k \in api_keys' \ api_keys :
               /\ api_keys' = api_keys \cup {k}
               /\ k.is_active
               /\ \E u \in users : u.id = k.user_id /\ u.email = resp'.user_email
               /\ k.key = hash_api_key(resp'.key)
               /\ k.expires_at # NoTime
               /\ resp'.expires_in_days = {} => k.expires_at = now + 90 * DayMinutes]_vars

\* C15: POST /keys/create by an authenticated principal with expires_in_days above 90 is
\* answered 400 "Expiration cannot exceed 90 days" and adds no row.
C15_CreateOverLimitRejected ==
    [][(CreateAnswered /\ ~WithinPolicy(resp'.expires_in_days)) =>
         /\ resp'.status = 400
         /\ resp'.detail = <<"Expiration cannot exceed 90 days">>
         /\ api_keys' = api_keys]_vars

OwnerEmail(k) == {u.email : u \in {x \in users : x.id = k.user_id}}

\* C16: DELETE /keys/revoke/{id} by an authenticated principal that does not own the row
\* with that id is answered 404 and leaves the row as it is; GET /keys/list is answered
\* with the caller's rows only.
C16_KeysUserScoped ==
    [][(resp' # resp /\ resp'.authenticated) =>
         /\ (/\ resp'.op = "revoke_api_key"
             /\ \E k \in api_keys :
                   k.id = resp'.key_id.value /\ resp'.user_email \notin OwnerEmail(k))
              => (resp'.status = 404 /\ api_keys' = api_keys)
         /\ resp'.op = "list_api_keys" =>
              /\ resp'.status = 200
              /\ \A l \in resp'.listed :
                    \E k \in api_keys :
                       k.id = l.id /\ resp'.user_email \in OwnerEmail(k)]_vars

\* C17: the raw key is disclosed once, by the create response, and never stored: an
\* authenticated create within the policy returns the raw key, the row it adds holds the
\* digest and no row holds the raw key; list and revoke responses carry no key.
C17_RawKeyDisclosedOnce ==
    /\ (resp.op = "create_api_key" /\ resp.authenticated
           /\ WithinPolicy(resp.expires_in_days)) =>
          /\ startswith(resp.key, SK_PREFIX)
          /\ \A k \in api_keys : k.key # resp.key
          /\ \E k \in api_keys : k.key = hash_api_key(resp.key)
    /\ resp.op \in {"list_api_keys", "revoke_api_key"} =>
          /\ resp.key = NoText
          /\ \A l \in resp.listed : "key" \notin DOMAIN l

-----------------------------------------------------------------------------
(* Claims about the refresh flow *)

Usable(r) == r.revoked_at = NoTime /\ r.expires_at > now

\* C1: once /auth/refresh has succeeded for a refresh token T, every refresh request that
\* presents T afterwards is answered 401, changes no row (revokes nothing, inserts
\* nothing) and issues no token; and a successful refresh returns a refresh token
\* different from the one presented.
C1_ReplayRejected ==
    [][(resp' # resp /\ resp'.op = "refresh" /\ resp'.status # 0) =>
         /\ resp'.replay =>
               /\ resp'.status = 401
               /\ store' = store
               /\ issued' = issued
               /\ resp'.access_token = NoText
               /\ resp'.refresh_token = NoToken
         /\ resp'.status = 200 => resp'.refresh_token # resp'.token]_vars

C1_Witness ==
    /\ resp.op = "refresh" /\ resp.replay /\ resp.status = 401
    /\ resp.token \in rotated

\* C2: in every committed state of the store a refresh-token row is revoked exactly when
\* the row that succeeds it has been inserted: no state has the revocation without the
\* successor or the successor without the revocation, whatever step a request died at.
C2_RotationAtomic ==
    /\ \A r \in refresh_tokens :
          r.revoked_at # NoTime <=>
            \E s \in refresh_tokens : <<r.id, s.id>> \in successors
    /\ \A pair \in successors :
          /\ \E r \in refresh_tokens : r.id = pair[1] /\ r.revoked_at # NoTime
          /\ \E s \in refresh_tokens : s.id = pair[2]

C2_Witness ==
    /\ resp.op = "refresh" /\ resp.detail = <<"aborted", "flushed">>
    /\ \E r \in refresh_tokens : r.revoked_at = NoTime
    /\ successors = {}

\* C3: there are never two usable (un-revoked, unexpired) refresh tokens that were both
\* issued by rotating the same token.
C3_SingleSuccessor ==
    \A a, b \in refresh_tokens :
        (/\ a.id # b.id
         /\ Usable(a) /\ Usable(b)
         /\ \E o \in refresh_tokens : <<o.id, a.id>> \in successors /\ <<o.id, b.id>> \in successors)
        => FALSE

-----------------------------------------------------------------------------
(* Claims about signup and the password policy *)

OneRowPerEmail(rows) == \A u1 \in rows, u2 \in rows : u1.email = u2.email => u1 = u2

SignupAnswered == resp' # resp /\ resp'.op = "signup"

\* C18: at most one users row per email exists in every state, also when two signups for
\* one email both pass the existence check before either commits; a signup answered
\* while its email is registered is rejected and inserts no row.
C18_EmailUnique ==
    /\ []OneRowPerEmail(users)
    /\ [][(SignupAnswered /\ \E u \in users : u.email = resp'.email) =>
            (resp'.status \in {400, 500} /\ users' = users)]_vars

C18_Witness ==
    /\ resp.op = "signup" /\ resp.status = 500 /\ resp.detail = <<"IntegrityError">>
    /\ Cardinality({u \in users : u.email = resp.email}) = 1

RuleMessages == <<ERR_LENGTH, ERR_UPPER, ERR_LOWER, ERR_DIGIT, ERR_SPECIAL>>

\* rule i of the policy is met by the password
RuleMet(i, password) ==
    CASE i = 1 -> Len(password) >= 8
      [] i = 2 -> Range(password) \cap UPPER # {}
      [] i = 3 -> Range(password) \cap LOWER # {}
      [] i = 4 -> Range(password) \cap DIGIT # {}
      [] i = 5 -> Range(password) \cap SPECIAL # {}

\* the messages a result holds, in their order (every second item is a separator)
MessagesOf(text) == [i \in 1..((Len(text) + 1) \div 2) |-> text[2 * i - 1]]

RECURSIVE ViolatedFrom(_, _)
ViolatedFrom(i, password) ==
    IF i > 5 THEN <<>>
    ELSE (IF RuleMet(i, password) THEN <<>> ELSE <<RuleMessages[i]>>)
            \o ViolatedFrom(i + 1, password)

\* C19: validate_password returns nothing exactly when the password meets all five
\* rules; otherwise it returns the messages of the violated rules, all of them and no
\* other, in the order length, uppercase, lowercase, digit, special, joined by "; ".
C19_ExactlyViolatedRules ==
    resp.op = "validate_password" =>
        LET met == {i \in 1..5 : RuleMet(i, resp.password)} IN
        /\ resp.password_error = {} <=> met = 1..5
        /\ resp.password_error # {} =>
              LET text == TheOne(resp.password_error) IN
              /\ Cardinality(resp.password_error) = 1
              /\ MessagesOf(text) = ViolatedFrom(1, resp.password)
              /\ \A j \in DOMAIN text : (j % 2 = 0) => text[j] = "; "

C19_Witness ==
    /\ resp.op = "validate_password" /\ Len(resp.password) >= 8
    /\ resp.password_error = {<<ERR_UPPER, "; ", ERR_DIGIT>>}

\* C20: POST /auth/signup with a password that meets the policy and an email no row
\* holds is answered 201 and inserts exactly one users row; with a password that
\* violates the policy, or an email some row holds, it is answered 400 and inserts none.
C20_SignupOutcome ==
    [][SignupAnswered =>
         IF validate_password(resp'.password) = {} /\ UserByEmail(resp'.email) = {}
         THEN /\ resp'.status = 201
              /\ \E u \in users' \ users : users' = users \cup {u} /\ u.email = resp'.email
         ELSE /\ resp'.status = 400
              /\ users' = users]_vars

-----------------------------------------------------------------------------
(* Claims about login *)

LoginAnswered == resp' # resp /\ resp'.op = "login"

\* C21: POST /auth/login is answered 200 with an access token and a refresh token exactly
\* when the email is a user's and the password matches the stored hash; it then inserts
\* exactly one refresh_tokens row, not revoked, owned by that user, expiring 7 days later.
\* Otherwise it is answered 401 and inserts no row.  (A generated token equal to a stored
\* one is refused by the unique index: 500, no row.)
C21_LoginOutcome ==
    [][LoginAnswered =>
         LET matching == {u \in users : /\ u.email = resp'.user_email
                                        /\ verify_password(resp'.password, u.hashed_password)}
         IN
         /\ resp'.status = 200 <=>
               (matching # {} /\ resp'.detail # <<"IntegrityError">>)
         /\ resp'.status = 200 =>
               /\ resp'.access_token # NoText /\ resp'.refresh_token # NoToken
               /\ \E u \in matching, r \in refresh_tokens' \ refresh_tokens :
                     /\ refresh_tokens' = refresh_tokens \cup {r}
                     /\ r.token = resp'.refresh_token
                     /\ r.user_id = u.id
                     /\ r.revoked_at = NoTime
                     /\ r.expires_at = now + 7 * DayMinutes
         /\ resp'.status # 200 =>
               /\ refresh_tokens' = refresh_tokens
               /\ resp'.access_token = NoText /\ resp'.refresh_token = NoToken
               /\ matching = {} => resp'.status = 401
               /\ matching # {} => resp'.status = 500]_vars

C21_Witness ==
    /\ resp.op = "login" /\ resp.status = 401 /\ resp.user_email = "admin@x.com"
    /\ \E r \in refresh_tokens : r.user_id = 2 /\ r.revoked_at = NoTime

-----------------------------------------------------------------------------
(* Claims about access tokens and GET /auth/me *)

\* C22: an unexpired access token returned for user U, presented to GET
\* /protected/user-only, is answered 200 with auth_type jwt and U's email, never
\* another user's; the token login returns names the user who logged in.
C22_TokenResolvesToItsUser ==
    /\ (resp.op = "login" /\ resp.status = 200) =>
          (resp.access_token \in issued /\ resp.access_token.sub = resp.user_email)
    /\ (resp.op = "user_only" /\ resp.cred \in issued /\ resp.cred.exp >= resp.at) =>
          /\ resp.status = 200
          /\ resp.auth_type = "jwt"
          /\ resp.user_email = resp.cred.sub
          /\ \E u \in users : u.email = resp.cred.sub /\ u.role = resp.role

C22_Witness ==
    /\ resp.op = "user_only" /\ resp.status = 200 /\ resp.cred \in issued
    /\ resp.user_email = "admin@x.com" /\ resp.at > 0

\* C23: the resolver yields no principal for a JWT whose expiry has passed, whose
\* signature was not made with the service's key or whose subject is absent: 401.  A
\* token minted by create_access_token with a lifetime of -1 is rejected at once.
C23_BadJwtRejected ==
    /\ (/\ resp.op \in {"user_only", "service_only", "admin"} /\ resp.paths = {"jwt"}
         /\ (resp.cred.exp < resp.at \/ resp.cred.sig # SECRET_KEY \/ resp.cred.sub = None))
          => (resp.status = 401 /\ ~resp.authenticated)
    /\ \A sub \in JwtSubjects :
          LET r == get_current_user(create_access_token(sub, {0 - 1}, now)) IN
          ~r.ok /\ r.status = 401

C23_Witness ==
    /\ resp.op = "user_only" /\ resp.status = 401
    /\ resp.cred = create_access_token("a@x.com", {0 - 1}, resp.at)

\* C24: GET /auth/me is answered 200 with the principal's user for every credential the
\* resolver accepts, and otherwise 401, only when the credential is not accepted.
C24_MeAnswersPrincipal ==
    resp.op = "me" =>
        /\ resp.authenticated => (resp.status = 200 /\ resp.user_email # None)
        /\ resp.status # 200 => (resp.status = 401 /\ ~resp.authenticated)

-----------------------------------------------------------------------------
(* Claims about rotation with several users *)

RefreshAnswered == resp' # resp /\ resp'.op = "refresh"

Ids(rows) == {r.id : r \in rows}

\* C25: a successful /auth/refresh for a row owned by U marks that row revoked, inserts
\* exactly one row, not revoked, owned by U, expiring 7 days later, and returns an access
\* token whose subject is U's email; every other row, and every user, stays as it is.
C25_RotationStaysWithUser ==
    [][(RefreshAnswered /\ resp'.status = 200) =>
         \E old \in refresh_tokens, u \in users :
            /\ old.token = resp'.token /\ u.id = old.user_id
            /\ \E old2 \in refresh_tokens', new \in refresh_tokens' :
                  /\ old2 = [old EXCEPT !.revoked_at = old2.revoked_at]
                  /\ old2.revoked_at # NoTime
                  /\ new.id \notin Ids(refresh_tokens)
                  /\ new.token = resp'.refresh_token /\ new.token # old.token
                  /\ new.user_id = u.id
                  /\ new.revoked_at = NoTime
                  /\ new.expires_at = old2.revoked_at + 7 * DayMinutes
                  /\ refresh_tokens' = (refresh_tokens \ {old}) \cup {old2, new}
            /\ resp'.access_token.sub = u.email /\ resp'.user_email = u.email
            /\ users' = users /\ api_keys' = api_keys]_vars

C25_Witness ==
    /\ resp.op = "refresh" /\ resp.status = 200 /\ resp.user_email = "admin@x.com"
    /\ \E r \in refresh_tokens : r.user_id = 1 /\ r.revoked_at = NoTime
    /\ \E r \in refresh_tokens : r.user_id = 2 /\ r.revoked_at # NoTime

\* C26: a /auth/refresh request rejected because its token is unknown, revoked or
\* expired is answered 401 with the same message in each case, and changes no row.
C26_RefreshRejectionUniform ==
    [][(RefreshAnswered /\ resp'.status = 401) =>
         /\ resp'.detail = <<"Invalid or expired refresh token">>
         /\ \A r \in refresh_tokens' : r.token = resp'.token => ~Usable(r)
         /\ users' = users /\ api_keys' = api_keys /\ refresh_tokens' = refresh_tokens]_vars

C26_Witness ==
    /\ resp.op = "refresh" /\ resp.status = 401
    /\ \E r \in refresh_tokens :
          r.token = resp.token /\ r.revoked_at = NoTime /\ r.expires_at <= now
    /\ \E r \in refresh_tokens : r.revoked_at # NoTime

\* C27: no step removes a refresh_tokens row or changes its token, owner or expiry, and
\* a row's revoked_at, once set, stays set: a revoked token does not become usable again.
C27_RefreshHistoryAppendOnly ==
    [][\A r \in refresh_tokens :
         \E r2 \in refresh_tokens' :
            /\ r2.id = r.id /\ r2.token = r.token /\ r2.user_id = r.user_id
            /\ r2.expires_at = r.expires_at
            /\ r.revoked_at # NoTime => r2.revoked_at # NoTime
            /\ r.revoked_at # NoTime => FindActiveRefreshToken(r.token)' = {}]_vars

C27_Witness ==
    /\ Cardinality(refresh_tokens) > 2
    /\ \E r \in refresh_tokens : r.revoked_at # NoTime /\ r.id \in {1, 2}
    /\ resp.op = "refresh" /\ resp.status = 200

-----------------------------------------------------------------------------
(* Claims about the expiry of keys, roles and the frame of the resolver *)

C29_NoPrivilegeEscalation ==
    /\ [](\A u \in users \ SeedUsers : u.role = "user" /\ ~check_admin(u))
    /\ [][\A u \in users : \E v \in users' : v.id = u.id /\ v.role = u.role]_vars
    /\ []((resp.op = "admin" /\ resp.authenticated
             /\ \E u \in users \ SeedUsers : u.email = resp.user_email)
           => resp.status = 403)

C29_Witness ==
    /\ resp.op = "admin" /\ resp.status = 403
    /\ \E u \in users \ SeedUsers : u.email = resp.user_email
    /\ \E u \in users : u.role = "admin"

ProtectedOps == {"user_only", "service_only", "admin"}

\* C30: a request to a protected route, accepted or rejected by the resolver or by a
\* gate, leaves every users, api_keys and refresh_tokens row as it was.
C30_ResolverReadOnly ==
    [][(resp' # resp /\ resp'.op \in ProtectedOps) =>
         (users' = users /\ api_keys' = api_keys /\ refresh_tokens' = refresh_tokens)]_vars

C30_Witness ==
    /\ resp.op = "service_only" /\ resp.status = 403 /\ resp.auth_type = "api_key"
    /\ \E k \in api_keys : k.key = resp.cred /\ k.is_active /\ k.revoked_at = NoTime
    /\ refresh_tokens # {}

====
